---- MODULE Spec2Model ----
(***************************************************************************)
(* Model of scripts/box_operations.py: the Box client factory              *)
(* (get_box_client), the bulk download (download_box_files) and the        *)
(* single-file upload (upload_file_to_box).  One call runs at a time; the  *)
(* remote API and the local filesystem are the environment, and every      *)
(* outcome they can produce at a call site is a nondeterministic choice.   *)
(***************************************************************************)
EXTENDS Integers, Sequences, FiniteSets, TLC

\* ---------------------------------------------------------------- bounds
\* Longest folder enumeration explored.
MaxItems == 2

\* ------------------------------------------------------- program constants
\* HTTP statuses the handlers branch on (lines 80, 82, 141, 143).
NotFound == 404
Unauthorized == 401
Forbidden == 403
\* Statuses none of the handlers names (409: name collision on upload).
OtherStatuses == {409}

\* e.status of a BoxAPIException.
ApiStatuses == {NotFound, Unauthorized, Forbidden} \cup OtherStatuses

\* ------------------------------------------------------------ value sets
\* Python None for an environment variable that is not set.
None == "None"
\* os.getenv yields None (unset), "" (set but empty) or a non-empty string.
EnvValues == {None, "", "v"}

\* Strings whose characters matter are sequences of one-character strings.
NameUniverse == {<<"c", "a">>, <<"c", "b">>, <<"b">>}
\* Children a folder may hold: files, and a subfolder whose name would pass
\* every filter.
ItemUniverse ==
    {[name |-> n, type |-> "file"] : n \in NameUniverse}
        \cup {[name |-> <<"c", "a", "d">>, type |-> "folder"]}
\* file_prefix_filter: None (the default) or a string, possibly empty.
NoPrefix == [none |-> TRUE, s |-> <<>>]
PrefixUniverse ==
    {NoPrefix} \cup {[none |-> FALSE, s |-> p] : p \in {<<>>, <<"c">>, <<"c", "a">>}}
FolderIds == {"F1", "F2"}

\* Local paths offered to upload_file_to_box: regular files, a directory,
\* and paths that do not exist.
LocalFiles == {<<"r">>, <<"d", "/", "r">>}
LocalDirs == {<<"d", "/">>}
MissingPaths == {<<"x">>, <<"d", "/", "x">>}
PathUniverse == LocalFiles \cup LocalDirs \cup MissingPaths
\* Identifiers the remote API may assign to a created file.
IdUniverse == {<<"7">>, <<"7", "8">>}

\* ---------------------------------------------------------------- state
VARIABLES
    BOX_CLIENT_ID, BOX_CLIENT_SECRET, BOX_REFRESH_TOKEN, \* lines 11-13
    dirExists,        \* the target directory exists on the local filesystem
    files,            \* target directory: name -> "absent" | "full" | "partial"
    pc,               \* position of the running call
    op,               \* "none" | "download" | "upload"
    folder_id, file_prefix_filter, file_path,   \* arguments of the call
    client,           \* what get_box_client returned to this call
    items,            \* items folder.get_items() has yielded so far
    outcomes,         \* what the loop did with each yielded item
    downloaded_files, \* line 90
    opened,           \* names open(file_path, 'wb') created or truncated
    log,              \* lines printed by this call
    netCalls,         \* remote requests issued by this call
    rej,              \* the BoxAPIException caught by this call, if any
    result,           \* value returned, or the exception that escaped
    outcome,          \* "running" | "returned" | "raised"
    dirAtCall, filesAtCall  \* filesystem as it was when the call started

vars == <<BOX_CLIENT_ID, BOX_CLIENT_SECRET, BOX_REFRESH_TOKEN, dirExists, files,
          pc, op, folder_id, file_prefix_filter, file_path, client, items,
          outcomes, downloaded_files, opened, log, netCalls, rej, result,
          outcome, dirAtCall, filesAtCall>>

env == <<BOX_CLIENT_ID, BOX_CLIENT_SECRET, BOX_REFRESH_TOKEN>>
fs == <<dirExists, files>>
loopVars == <<items, outcomes, downloaded_files, opened>>

\* ------------------------------------------------------- pure functions
\* Python truthiness of an environment value: None and "" are falsy.
Truthy(v) == v # None /\ v # ""

\* Mutant of CredentialsPresent: any([...]) in place of all([...]).
CredentialsPresent_Any(id, secret, token) ==
    Truthy(id) \/ Truthy(secret) \/ Truthy(token)

\* all([...]) at line 38.
CredentialsPresent(id, secret, token) ==
    Truthy(id) /\ Truthy(secret) /\ Truthy(token)

\* str.startswith, character by character.
StartsWith(name, prefix) ==
    /\ Len(prefix) <= Len(name)
    /\ \A i \in 1..Len(prefix) : name[i] = prefix[i]

\* Mutant of PrefixRejects: the "not" of line 95 is lost.
PrefixRejects_Inverted(name, filter) ==
    /\ ~filter.none
    /\ Len(filter.s) > 0
    /\ StartsWith(name, filter.s)

\* Line 95: the filter applies only when file_prefix_filter is truthy.
PrefixRejects(name, filter) ==
    /\ ~filter.none
    /\ Len(filter.s) > 0
    /\ ~StartsWith(name, filter.s)

\* Mutant of basename: the path is passed on whole.
basename_Identity(path) == path

\* os.path.basename: everything after the last "/".
LastSlash(path) ==
    LET S == {i \in 1..Len(path) : path[i] = "/"}
    IN  IF S = {} THEN 0 ELSE CHOOSE i \in S : \A j \in S : j <= i
basename(path) == SubSeq(path, LastSlash(path) + 1, Len(path))

\* Mutant of PathExists: the test looks at the directory part only.
PathExists_Dirname(path) ==
    \E d \in LocalDirs : Len(d) <= Len(path) /\ SubSeq(path, 1, Len(d)) = d

\* os.path.exists.
PathExists(path) == path \in LocalFiles \cup LocalDirs

\* ------------------------------------------------------ records in use
Line(msg, fid, status, name) ==
    [msg |-> msg, fid |-> fid, status |-> status, name |-> name]
Request(call, fid, name) == [call |-> call, fid |-> fid, name |-> name]
NoRej == [at |-> "none", status |-> 0]
Pending == [kind |-> "pending", list |-> <<>>, id |-> <<>>, name |-> <<>>]
ReturnedList(l) == [kind |-> "list", list |-> l, id |-> <<>>, name |-> <<>>]
ReturnedNone == [kind |-> "None", list |-> <<>>, id |-> <<>>, name |-> <<>>]
ReturnedFile(id, name) == [kind |-> "File", list |-> <<>>, id |-> id, name |-> name]
Escaped(what) == [kind |-> what, list |-> <<>>, id |-> <<>>, name |-> <<>>]

\* ------------------------------------------------------- get_box_client
\* Lines 38-41: the lines printed when a credential is missing.
MissingCredentialLog ==
    <<Line("missing_env", "", 0, <<>>), Line("missing_env_hint", "", 0, <<>>)>>
\* Lines 53-57: the lines printed when building the client raises.
AuthFailedLog ==
    <<Line("auth_error", "", 0, <<>>), Line("auth_causes", "", 0, <<>>),
      Line("auth_rerun", "", 0, <<>>)>>

\* get_box_client: "None" or "Client", with the lines it prints.  authOk is
\* whether OAuth2(...) and Client(oauth) complete without raising.
get_box_client(authOk) ==
    IF ~CredentialsPresent(BOX_CLIENT_ID, BOX_CLIENT_SECRET, BOX_REFRESH_TOKEN)
    THEN [client |-> "None", log |-> MissingCredentialLog]
    ELSE IF ~authOk
         THEN [client |-> "None", log |-> AuthFailedLog]
         ELSE [client |-> "Client", log |-> <<>>]

\* ---------------------------------------------------------------- Init
NoFiles == [n \in NameUniverse |-> "absent"]

Init ==
    /\ BOX_CLIENT_ID \in EnvValues
    /\ BOX_CLIENT_SECRET \in EnvValues
    /\ BOX_REFRESH_TOKEN \in EnvValues
    /\ dirExists \in BOOLEAN
    /\ files = NoFiles
    /\ pc = "idle"
    /\ op = "none"
    /\ folder_id = ""
    /\ file_prefix_filter = NoPrefix
    /\ file_path = <<>>
    /\ client = "None"
    /\ items = <<>>
    /\ outcomes = <<>>
    /\ downloaded_files = <<>>
    /\ opened = {}
    /\ log = <<>>
    /\ netCalls = <<>>
    /\ rej = NoRej
    /\ result = Pending
    /\ outcome = "running"
    /\ dirAtCall = dirExists
    /\ filesAtCall = files


\* ------------------------------------------------------ ending a call
\* A return statement: the call ends with a value.
Returns(value) ==
    /\ pc' = "done"
    /\ outcome' = "returned"
    /\ result' = value

\* An exception no handler of the function catches: it reaches the caller.
Raises(what) ==
    /\ pc' = "done"
    /\ outcome' = "raised"
    /\ result' = Escaped(what)

\* -------------------------------------------------- download_box_files
\* Mutant of DownloadRejectionLog: the two hints are attached to the wrong
\* statuses.
DownloadRejectionLog_Swapped(fid, status) ==
    <<Line("api_access_failed", fid, status, <<>>)>> \o
    (IF status = Unauthorized
     THEN <<Line("hint_folder_id", "", 0, <<>>)>>
     ELSE IF status = NotFound
          THEN <<Line("hint_authentication", "", 0, <<>>)>>
          ELSE <<>>)

\* Lines 79-83: what the BoxAPIException handler prints.
DownloadRejectionLog(fid, status) ==
    <<Line("api_access_failed", fid, status, <<>>)>> \o
    (IF status = NotFound
     THEN <<Line("hint_folder_id", "", 0, <<>>)>>
     ELSE IF status = Unauthorized
          THEN <<Line("hint_authentication", "", 0, <<>>)>>
          ELSE <<>>)

\* Lines 59-73: the call starts, asks for a client and returns [] without one.
CallDownload(fid, prefix, authOk) ==
    /\ pc = "idle"
    /\ LET g == get_box_client(authOk)
       IN  /\ client' = g.client
           /\ log' = g.log
           /\ IF g.client = "None"
              THEN Returns(ReturnedList(<<>>))
              ELSE /\ pc' = "dl_resolve"
                   /\ UNCHANGED <<result, outcome>>
    /\ op' = "download"
    /\ folder_id' = fid
    /\ file_prefix_filter' = prefix
    /\ dirAtCall' = dirExists
    /\ filesAtCall' = files
    /\ UNCHANGED <<env, fs, file_path, loopVars, netCalls, rej>>

\* Mutant of ResolveFolder: os.makedirs runs before the folder lookup.
ResolveFolder_MakeDirsFirst(resp) ==
    /\ pc = "dl_resolve"
    /\ dirExists' = TRUE
    /\ netCalls' = Append(netCalls, Request("folder.get", folder_id, <<>>))
    /\ IF resp.kind = "ok"
       THEN /\ log' = Append(log, Line("accessing", folder_id, 0, <<>>))
            /\ pc' = "dl_mkdir"
            /\ UNCHANGED <<rej, result, outcome>>
       ELSE /\ log' = log \o DownloadRejectionLog(folder_id, resp.status)
            /\ rej' = [at |-> "resolve", status |-> resp.status]
            /\ pc' = "done"
            /\ outcome' = "returned"
            /\ result' = ReturnedList(<<>>)
    /\ UNCHANGED <<env, files, op, folder_id, file_prefix_filter, file_path, client,
                   loopVars, dirAtCall, filesAtCall>>

\* Lines 75-87: client.folder(folder_id).get() and its two handlers.
\* resp is the answer of the remote API: "ok", "api" (a BoxAPIException
\* carrying an HTTP status) or "error" (any other exception).
ResolveFolder(resp) ==
    /\ pc = "dl_resolve"
    /\ netCalls' = Append(netCalls, Request("folder.get", folder_id, <<>>))
    /\ IF resp.kind = "ok"
       THEN /\ log' = Append(log, Line("accessing", folder_id, 0, <<>>))
            /\ pc' = "dl_mkdir"
            /\ UNCHANGED <<rej, result, outcome>>
       ELSE IF resp.kind = "error"
            THEN /\ log' = Append(log, Line("unexpected_access", folder_id, 0, <<>>))
                 /\ rej' = [at |-> "resolve", status |-> 0]
                 /\ Returns(ReturnedList(<<>>))
            ELSE /\ log' = log \o DownloadRejectionLog(folder_id, resp.status)
                 /\ rej' = [at |-> "resolve", status |-> resp.status]
                 /\ Returns(ReturnedList(<<>>))
    /\ UNCHANGED <<env, fs, op, folder_id, file_prefix_filter, file_path, client,
                   loopVars, dirAtCall, filesAtCall>>

\* Mutant of MakeDirs: the directory is never created.
MakeDirs_Skipped(created) ==
    /\ pc = "dl_mkdir"
    /\ downloaded_files' = <<>>
    /\ log' = Append(log, Line("checking", "", 0, <<>>))
    /\ pc' = "dl_loop"
    /\ UNCHANGED <<env, fs, op, folder_id, file_prefix_filter, file_path, client,
                   items, outcomes, opened, netCalls, rej, result, outcome,
                   dirAtCall, filesAtCall>>

\* Lines 89-92: os.makedirs(target_dir, exist_ok=True), outside any try.
\* It cannot fail on a directory that exists; otherwise the filesystem may
\* refuse (the path is a regular file, a parent is not writable).
MakeDirs(created) ==
    /\ pc = "dl_mkdir"
    /\ IF dirExists \/ created
       THEN /\ dirExists' = TRUE
            /\ downloaded_files' = <<>>
            /\ log' = Append(log, Line("checking", "", 0, <<>>))
            /\ pc' = "dl_loop"
            /\ UNCHANGED <<result, outcome>>
       ELSE /\ Raises("OSError")
            /\ UNCHANGED <<dirExists, downloaded_files, log>>
    /\ UNCHANGED <<env, files, op, folder_id, file_prefix_filter, file_path, client,
                   items, outcomes, opened, netCalls, rej, dirAtCall, filesAtCall>>

\* folder.get_items() is lazy: the first step of the loop sends the request.
Enumerating(calls) ==
    IF \E i \in 1..Len(calls) : calls[i].call = "get_items"
    THEN calls
    ELSE Append(calls, Request("get_items", folder_id, <<>>))

\* Mutant of DownloadItem: the name is appended before the transfer is
\* tried, so a failed item stays in the list.
DownloadItem_AppendFirst(name, oc) ==
    /\ netCalls' = Append(Enumerating(netCalls), Request("download_to", folder_id, name))
    /\ outcomes' = Append(outcomes, oc)
    /\ downloaded_files' = Append(downloaded_files, name)
    /\ files' = [files EXCEPT ![name] =
                    IF oc = "ok" THEN "full"
                    ELSE IF oc = "write_failed" THEN "partial" ELSE @]
    /\ opened' = IF oc \in {"ok", "write_failed"} THEN opened \cup {name} ELSE opened
    /\ log' = log \o <<Line("downloading", "", 0, name)>> \o
                 (IF oc = "ok" THEN <<>> ELSE <<Line("download_failed", "", 0, name)>>)

\* Mutant of DownloadItem: the local file is opened before the fetch, so a
\* failed fetch leaves it truncated.
DownloadItem_OpenBeforeFetch(name, oc) ==
    /\ netCalls' = Append(Enumerating(netCalls), Request("download_to", folder_id, name))
    /\ outcomes' = Append(outcomes, oc)
    /\ files' = [files EXCEPT ![name] =
                    IF oc = "ok" THEN "full"
                    ELSE IF oc = "open_failed" THEN @ ELSE "partial"]
    /\ opened' = IF oc = "open_failed" THEN opened ELSE opened \cup {name}
    /\ downloaded_files' =
          IF oc = "ok" THEN Append(downloaded_files, name) ELSE downloaded_files
    /\ log' = log \o <<Line("downloading", "", 0, name)>> \o
                 (IF oc = "ok" THEN <<>> ELSE <<Line("download_failed", "", 0, name)>>)

\* Lines 99-110: one transfer.  oc is what the environment does to it:
\*   "fetch_failed"  download_to raises (nothing local was touched yet);
\*   "open_failed"   open(file_path, 'wb') raises;
\*   "write_failed"  open created or truncated the file and f.write raises;
\*   "ok"            the bytes were written and the name is appended.
\* Each exception is caught at line 108 and the loop continues.
DownloadItem(name, oc) ==
    /\ netCalls' = Append(Enumerating(netCalls), Request("download_to", folder_id, name))
    /\ outcomes' = Append(outcomes, oc)
    /\ IF oc = "ok"
       THEN /\ files' = [files EXCEPT ![name] = "full"]
            /\ opened' = opened \cup {name}
            /\ downloaded_files' = Append(downloaded_files, name)
            /\ log' = Append(log, Line("downloading", "", 0, name))
       ELSE /\ IF oc = "write_failed"
               THEN /\ files' = [files EXCEPT ![name] = "partial"]
                    /\ opened' = opened \cup {name}
               ELSE UNCHANGED <<files, opened>>
            /\ UNCHANGED downloaded_files
            /\ log' = log \o <<Line("downloading", "", 0, name),
                               Line("download_failed", "", 0, name)>>

\* Lines 93-110: one iteration of the loop over the item the enumeration
\* yields next.
LoopIteration(file_item, oc) ==
    /\ pc = "dl_loop"
    /\ Len(items) < MaxItems
    /\ items' = Append(items, file_item)
    /\ IF file_item.type # "file"
       THEN /\ outcomes' = Append(outcomes, "not_a_file")
            /\ netCalls' = Enumerating(netCalls)
            /\ UNCHANGED <<files, opened, downloaded_files, log>>
       ELSE IF PrefixRejects(file_item.name, file_prefix_filter)
            THEN /\ outcomes' = Append(outcomes, "skipped")
                 /\ netCalls' = Enumerating(netCalls)
                 /\ log' = Append(log, Line("skipping", "", 0, file_item.name))
                 /\ UNCHANGED <<files, opened, downloaded_files>>
            ELSE DownloadItem(file_item.name, oc)
    /\ UNCHANGED <<env, dirExists, pc, op, folder_id, file_prefix_filter, file_path,
                   client, rej, result, outcome, dirAtCall, filesAtCall>>

\* Line 93: fetching a page of the enumeration raises; the for statement is
\* outside any try.
EnumerationFails ==
    /\ pc = "dl_loop"
    /\ netCalls' = Enumerating(netCalls)
    /\ Raises("BoxAPIException")
    /\ UNCHANGED <<env, fs, op, folder_id, file_prefix_filter, file_path, client,
                   loopVars, log, rej, dirAtCall, filesAtCall>>

\* Lines 111-112: the enumeration is exhausted.
FinishDownload ==
    /\ pc = "dl_loop"
    /\ netCalls' = Enumerating(netCalls)
    /\ log' = Append(log, Line("downloaded", "", 0, <<>>))
    /\ Returns(ReturnedList(downloaded_files))
    /\ UNCHANGED <<env, fs, op, folder_id, file_prefix_filter, file_path, client,
                   loopVars, rej, dirAtCall, filesAtCall>>

\* --------------------------------------------------- upload_file_to_box
\* Lines 140-144: what the BoxAPIException handler prints.
UploadRejectionLog(fid, name, status) ==
    <<Line("api_upload_failed", fid, status, name)>> \o
    (IF status = NotFound
     THEN <<Line("hint_upload_folder", "", 0, <<>>)>>
     ELSE IF status = Forbidden
          THEN <<Line("hint_permission", "", 0, <<>>)>>
          ELSE <<>>)

\* Lines 114-133: the call starts, asks for a client, tests the local path.
CallUpload(fid, path, authOk) ==
    /\ pc = "idle"
    /\ LET g == get_box_client(authOk)
       IN  /\ client' = g.client
           /\ IF g.client = "None"
              THEN /\ log' = g.log
                   /\ Returns(ReturnedNone)
              ELSE IF ~PathExists(path)
                   THEN /\ log' = Append(g.log, Line("local_missing", "", 0, path))
                        /\ Returns(ReturnedNone)
                   ELSE /\ log' = g.log
                        /\ pc' = "up_send"
                        /\ UNCHANGED <<result, outcome>>
    /\ op' = "upload"
    /\ folder_id' = fid
    /\ file_path' = path
    /\ dirAtCall' = dirExists
    /\ filesAtCall' = files
    /\ UNCHANGED <<env, fs, file_prefix_filter, loopVars, netCalls, rej>>

\* Lines 133-148: folder lookup and upload inside one try.  resp answers
\* the folder lookup and up the upload: "ok" (the file is created), "api"
\* (a BoxAPIException), "error" (any other exception once the request is
\* out) or "read_error" (opening the local file raises before any request;
\* always so for a directory).
UploadSend(resp, up, id) ==
    /\ pc = "up_send"
    /\ LET file_name == basename(file_path)
           lookup == Request("folder.get", folder_id, <<>>)
           send == Request("upload", folder_id, file_name)
           unreadable == file_path \in LocalDirs \/ up.kind = "read_error"
       IN  IF resp.kind = "error"
           THEN /\ netCalls' = Append(netCalls, lookup)
                /\ rej' = [at |-> "resolve", status |-> 0]
                /\ log' = Append(log, Line("unexpected_upload", "", 0, file_name))
                /\ Returns(ReturnedNone)
           ELSE IF resp.kind = "api"
                THEN /\ netCalls' = Append(netCalls, lookup)
                     /\ rej' = [at |-> "resolve", status |-> resp.status]
                     /\ log' = log \o UploadRejectionLog(folder_id, file_name, resp.status)
                     /\ Returns(ReturnedNone)
           ELSE IF unreadable
                THEN /\ netCalls' = Append(netCalls, lookup)
                     /\ rej' = [at |-> "read", status |-> 0]
                     /\ log' = Append(log, Line("unexpected_upload", "", 0, file_name))
                     /\ Returns(ReturnedNone)
           ELSE IF up.kind = "error"
                THEN /\ netCalls' = netCalls \o <<lookup, send>>
                     /\ rej' = [at |-> "upload", status |-> 0]
                     /\ log' = Append(log, Line("unexpected_upload", "", 0, file_name))
                     /\ Returns(ReturnedNone)
           ELSE IF up.kind = "api"
                THEN /\ netCalls' = netCalls \o <<lookup, send>>
                     /\ rej' = [at |-> "upload", status |-> up.status]
                     /\ log' = log \o UploadRejectionLog(folder_id, file_name, up.status)
                     /\ Returns(ReturnedNone)
           ELSE /\ netCalls' = netCalls \o <<lookup, send>>
                /\ UNCHANGED rej
                /\ log' = Append(log, Line("uploaded", folder_id, 0, file_name))
                /\ Returns(ReturnedFile(id, send.name))
    /\ UNCHANGED <<env, fs, op, folder_id, file_prefix_filter, file_path, client,
                   loopVars, dirAtCall, filesAtCall>>

\* ------------------------------------------------------------- caller
\* The caller takes the result; the next call starts from the filesystem
\* this one left behind.
NextCall ==
    /\ pc = "done"
    /\ pc' = "idle"
    /\ op' = "none"
    /\ folder_id' = ""
    /\ file_prefix_filter' = NoPrefix
    /\ file_path' = <<>>
    /\ client' = "None"
    /\ items' = <<>>
    /\ outcomes' = <<>>
    /\ downloaded_files' = <<>>
    /\ opened' = {}
    /\ log' = <<>>
    /\ netCalls' = <<>>
    /\ rej' = NoRej
    /\ result' = Pending
    /\ outcome' = "running"
    /\ dirAtCall' = dirExists
    /\ filesAtCall' = files
    /\ UNCHANGED <<env, fs>>

Answer(kind, status) == [kind |-> kind, status |-> status]
Responses ==
    {Answer("ok", 0), Answer("error", 0)} \cup {Answer("api", s) : s \in ApiStatuses}
UploadResponses == Responses \cup {Answer("read_error", 0)}
ItemOutcomes == {"fetch_failed", "open_failed", "write_failed", "ok"}

Next ==
    \/ \E fid \in FolderIds, prefix \in PrefixUniverse, authOk \in BOOLEAN :
          CallDownload(fid, prefix, authOk)
    \/ \E resp \in Responses : ResolveFolder(resp)
    \/ \E created \in BOOLEAN : MakeDirs(created)
    \/ \E file_item \in ItemUniverse, oc \in ItemOutcomes :
          LoopIteration(file_item, oc)
    \/ EnumerationFails
    \/ FinishDownload
    \/ \E fid \in FolderIds, path \in PathUniverse, authOk \in BOOLEAN :
          CallUpload(fid, path, authOk)
    \/ \E resp \in Responses, up \in UploadResponses, id \in IdUniverse :
          UploadSend(resp, up, id)
    \/ NextCall

Spec == Init /\ [][Next]_vars


\* =================================================================
\* Properties
\* =================================================================
Done == pc = "done"
MissingCredentials ==
    BOX_CLIENT_ID \in {None, ""} \/ BOX_CLIENT_SECRET \in {None, ""}
        \/ BOX_REFRESH_TOKEN \in {None, ""}
\* The download got past folder resolution.
FolderResolved == op = "download" /\ client = "Client" /\ rej = NoRej
    /\ \E i \in 1..Len(netCalls) : netCalls[i].call = "folder.get"
\* The download ended with a return statement after the loop.
DownloadCompleted == Done /\ FolderResolved /\ outcome = "returned"
Range(seq) == {seq[i] : i \in 1..Len(seq)}
\* Names of the requests of one kind, in the order they were issued.
RequestNames(kind) ==
    LET R == SelectSeq(netCalls, LAMBDA r : r.call = kind)
    IN  [i \in 1..Len(R) |-> R[i].name]
Remote(kind) == \E i \in 1..Len(netCalls) : netCalls[i].call = kind

\* C1: every call of download_box_files or upload_file_to_box ends by
\* returning its sentinel or its result (a list for download; None or the
\* file handle for upload); no exception reaches the caller.
C1_NoExceptionEscapes ==
    Done =>
        /\ outcome = "returned"
        /\ op = "download" => result.kind = "list"
        /\ op = "upload" => result.kind \in {"None", "File"}

\* C2: a download with a prefix filter that runs to its return with no
\* fetch or write failure fetches, writes and returns exactly the file-type
\* children whose names start with the prefix; nothing else is touched.
C2_PrefixFilterExact ==
    (/\ DownloadCompleted
     /\ ~file_prefix_filter.none
     /\ \A i \in 1..Len(outcomes) : outcomes[i] \in {"ok", "not_a_file", "skipped"})
    => LET wanted == {items[i].name : i \in {j \in 1..Len(items) :
                          /\ items[j].type = "file"
                          /\ StartsWith(items[j].name, file_prefix_filter.s)}}
       IN  /\ Range(RequestNames("download_to")) = wanted
           /\ opened = wanted
           /\ Range(result.list) = wanted
           /\ \A n \in NameUniverse :
                 IF n \in wanted THEN files[n] = "full" ELSE files[n] = filesAtCall[n]
C2_Witness ==
    /\ DownloadCompleted
    /\ file_prefix_filter.s = <<"c">>
    /\ items = <<[name |-> <<"c", "a">>, type |-> "file"],
                 [name |-> <<"b">>, type |-> "file"]>>
    /\ result.list = <<<<"c", "a">>>>
    /\ files[<<"b">>] = "absent"

\* The names of the items whose transfer succeeded, in enumeration order.
RECURSIVE OkNames(_, _)
OkNames(its, ocs) ==
    IF its = <<>> THEN <<>>
    ELSE (IF Head(ocs) = "ok" THEN <<Head(its).name>> ELSE <<>>)
             \o OkNames(Tail(its), Tail(ocs))
\* The names of the file-type items that pass the filter, in order.
RECURSIVE PassingNames(_)
PassingNames(its) ==
    IF its = <<>> THEN <<>>
    ELSE (IF Head(its).type = "file"
             /\ (file_prefix_filter.none \/ StartsWith(Head(its).name, file_prefix_filter.s))
          THEN <<Head(its).name>> ELSE <<>>)
             \o PassingNames(Tail(its))

\* C3: when a download returns after the loop, every file-type item that
\* passes the filter was attempted (whatever happened to the items before
\* it), and the returned list is the names of the items whose fetch and
\* write both succeeded, in enumeration order.
C3_FailuresDoNotAbort ==
    DownloadCompleted =>
        /\ Len(outcomes) = Len(items)
        /\ RequestNames("download_to") = PassingNames(items)
        /\ result.list = OkNames(items, outcomes)
C3_Witness ==
    /\ DownloadCompleted
    /\ Len(items) = 2
    /\ outcomes[1] \in {"fetch_failed", "write_failed"}
    /\ outcomes[2] = "ok"
    /\ result.list = <<items[2].name>>

\* C4: with a credential missing, get_box_client yields no client, no
\* remote request is ever issued, nothing is raised, download returns []
\* and upload returns None.
C4_MissingCredentials ==
    (MissingCredentials /\ op # "none") =>
        /\ client = "None"
        /\ netCalls = <<>>
        /\ Done
        /\ outcome = "returned"
        /\ op = "download" => result = ReturnedList(<<>>)
        /\ op = "upload" => result = ReturnedNone
C4_Witness ==
    /\ BOX_CLIENT_ID = "v" /\ BOX_CLIENT_SECRET = "v" /\ BOX_REFRESH_TOKEN = ""
    /\ op = "download" /\ Done /\ result = ReturnedList(<<>>)

\* C5: an upload of a local path that does not exist returns None and
\* issues neither the folder lookup nor the upload request.
C5_MissingLocalFile ==
    (op = "upload" /\ file_path \in MissingPaths) =>
        /\ Done
        /\ outcome = "returned"
        /\ result = ReturnedNone
        /\ netCalls = <<>>
C5_Witness ==
    /\ op = "upload" /\ client = "Client" /\ file_path = <<"d", "/", "x">> /\ Done
    /\ \E i \in 1..Len(log) : log[i].msg = "local_missing"

\* What a reader of the log can tell: the "not found" hint was printed.
SaysNotFound(lines) ==
    \E i \in 1..Len(lines) : lines[i].msg \in {"hint_folder_id", "hint_upload_folder"}
\* The status printed on the first line of the handler.
StatusPrinted(lines) ==
    {lines[i].status : i \in {j \in 1..Len(lines) :
        lines[j].msg \in {"api_access_failed", "api_upload_failed"}}}

\* C6: when folder resolution is rejected, download returns [] and upload
\* returns None; the log of a 404 rejection carries the "not found" hint
\* and the status 404, the log of a 401 rejection carries neither, so the
\* two logs differ in both operations.
C6_RejectionsDistinguishable ==
    (Done /\ rej.at = "resolve" /\ rej.status # 0) =>
        /\ outcome = "returned"
        /\ op = "download" => result = ReturnedList(<<>>)
        /\ op = "upload" => result = ReturnedNone
        /\ StatusPrinted(log) = {rej.status}
        /\ rej.status = NotFound => SaysNotFound(log)
        /\ rej.status = Unauthorized => ~SaysNotFound(log)
C6_Witness ==
    /\ Done /\ op = "upload" /\ rej = [at |-> "resolve", status |-> Unauthorized]
    /\ Len(log) = 1

\* C7: a write into the target directory happens only once the directory
\* exists, and a download that resolved its folder and returned has
\* created the directory, whether or not anything was written.
C7_DirectoryBeforeWrites ==
    [][/\ (files' # files \/ opened' # opened) => dirExists
       /\ (pc' = "done" /\ op' = "download" /\ client' = "Client" /\ rej' = NoRej
              /\ outcome' = "returned") => dirExists']_vars
C7_Witness ==
    /\ DownloadCompleted
    /\ ~dirAtCall
    /\ dirExists
    /\ opened = {<<"c", "a">>}

\* The base name of a path: its longest suffix that holds no "/".
IsBaseName(b, path) ==
    /\ Len(b) <= Len(path)
    /\ b = SubSeq(path, Len(path) - Len(b) + 1, Len(path))
    /\ \A i \in 1..Len(b) : b[i] # "/"
    /\ Len(b) < Len(path) => path[Len(path) - Len(b)] = "/"

\* C8: an upload never issues more than one upload request, each one goes
\* to the folder of the call under the base name of the local path; when
\* the local file exists, the client is there and neither the lookup nor
\* the upload fails, exactly one is issued and the returned handle has a
\* non-empty identifier and that base name.
C8_UploadUnderBaseName ==
    op = "upload" =>
        LET U == SelectSeq(netCalls, LAMBDA r : r.call = "upload")
        IN  /\ Len(U) <= 1
            /\ \A i \in 1..Len(U) :
                  U[i].fid = folder_id /\ IsBaseName(U[i].name, file_path)
            /\ (Done /\ client = "Client" /\ file_path \in LocalFiles /\ rej = NoRej) =>
                  /\ Len(U) = 1
                  /\ outcome = "returned"
                  /\ result.kind = "File"
                  /\ Len(result.id) > 0
                  /\ IsBaseName(result.name, file_path)
C8_Witness ==
    /\ op = "upload" /\ Done /\ file_path = <<"d", "/", "r">>
    /\ result.kind = "File" /\ result.name = <<"r">> /\ folder_id = "F2"

\* Names whose file this call created, truncated or rewrote.
Touched == opened \cup {n \in NameUniverse : files[n] # filesAtCall[n]}
\* Names whose write failed after open() had created or truncated the file.
WriteFailedNames ==
    {items[i].name : i \in {j \in 1..Len(outcomes) : outcomes[j] = "write_failed"}}

\* C9 as stated: after a download returns, a file was created or
\* overwritten during the call if and only if its name is in the result.
C9_TouchedIffReturned ==
    DownloadCompleted => Touched = Range(result.list)

\* C9 amended: a file is created or overwritten during the call if and
\* only if its name is in the result or its write failed after the file was
\* opened for writing; an item whose fetch or open fails leaves the
\* directory unchanged for its name, while a failed write leaves the
\* truncated or partial file behind.
C9_TouchedIffReturnedOrWriteFailed ==
    op = "download" =>
        /\ Touched = Range(downloaded_files) \cup WriteFailedNames
        /\ \A n \in WriteFailedNames \ Range(downloaded_files) : files[n] = "partial"
        /\ Done /\ outcome = "returned" => result.list = downloaded_files
C9_Witness ==
    /\ DownloadCompleted
    /\ outcomes = <<"fetch_failed", "write_failed">>
    /\ items[1].name = <<"c", "a">> /\ items[2].name = <<"b">>
    /\ files[<<"c", "a">>] = "absent" /\ files[<<"b">>] = "partial"
    /\ result.list = <<>>

\* C10: a download that returns early, for want of a client or because
\* folder resolution failed, has not created the target directory, has
\* written no file and has neither enumerated nor fetched anything.
C10_EarlyReturnTouchesNothing ==
    (Done /\ op = "download" /\ (client = "None" \/ rej.at = "resolve")) =>
        /\ outcome = "returned"
        /\ result = ReturnedList(<<>>)
        /\ dirExists = dirAtCall
        /\ files = filesAtCall
        /\ opened = {}
        /\ items = <<>>
        /\ ~Remote("get_items")
        /\ ~Remote("download_to")
C10_Witness ==
    /\ Done /\ op = "download" /\ client = "Client"
    /\ rej = [at |-> "resolve", status |-> NotFound]
    /\ ~dirExists

====
